---- MODULE Spec2Model ----
(***************************************************************************)
(* Model of the MHWorldData assemblers and validators:                     *)
(*   mhdata/merge/binary/load.py  WeaponDataLoader.load_tree, WeaponTree,  *)
(*                                load_armor_series                        *)
(*   mhdata/load/validate.py      validate and its rule evaluators         *)
(* Each subsystem has its own specification over the shared variables; the *)
(* variables of the other subsystems stay at their idle values.            *)
(***************************************************************************)
EXTENDS Integers, Sequences, FiniteSets, TLC

VARIABLES
    sys,                \* which subsystem this behaviour runs
    pc,                 \* position of the running function
    weapon_binaries,    \* load_tree: the weapon records, in file order
    upgrade_data,       \* load_tree: the upgrade side-table (eq_cus entries)
    weapon_map,         \* load_tree: insertion-ordered dict id -> node
    weapon_descendants, \* load_tree: dict id -> the four descendant slots
    cur,                \* load_tree: position of the second pass in weapon_map
    tree,               \* the WeaponTree returned (roots, _isolated), or NoTree
    stack,              \* WeaponTree.crafted: the generator's stack
    yielded,            \* WeaponTree.crafted: nodes yielded so far
    armor_binaries,     \* load_armor_series: the armor records, in file order
    armorset_text,      \* load_armor_series: set id -> English set name
    armor_by_setid,     \* load_armor_series: insertion-ordered dict set id -> records
    armor_series,       \* load_armor_series: the dict returned, name -> ArmorSetData
    monster_map,        \* validate_monster_rewards: the monster entries
    reward_errors,      \* validate_monster_rewards: the set returned
    reward_warnings,    \* validate_monster_rewards: the failed ensure_warn calls
    skill_map,          \* validate_skills: the skill entries
    skill_errors,       \* validate_skills: the list returned
    mhdata_weapon_map,  \* validate_weapons: mhdata.weapon_map, the weapon entries
    weapon_ammo_map,    \* validate_weapons: mhdata.weapon_ammo_map, name -> ammo entry
    weapon_errors,      \* validate_weapons: the list returned
    weapon_warnings,    \* validate_weapons: the warnings printed
    armorset_map,       \* validate_armor: mhdata.armorset_map, the set entries
    armor_map,          \* validate_armor: mhdata.armor_map, the armor entries
    armorset_bonus_map, \* validate_armor: mhdata.armorset_bonus_map, the set bonuses
    armor_errors,       \* validate_armor: the list returned
    armor_warnings,     \* validate_armor: the warnings printed
    mhdata,             \* validate: the data handed to the rule evaluators
    validate_errors,    \* validate: its list errors, collected so far
    printed,            \* validate: the lines printed so far
    result              \* validate: the value returned, or None

treeVars == <<weapon_binaries, upgrade_data, weapon_map, weapon_descendants,
              cur, tree, stack, yielded>>

armorVars == <<armor_binaries, armorset_text, armor_by_setid, armor_series>>

rewardVars == <<monster_map, reward_errors, reward_warnings>>

skillVars == <<skill_map, skill_errors>>

weaponVars == <<mhdata_weapon_map, weapon_ammo_map, weapon_errors, weapon_warnings>>

armorCheckVars == <<armorset_map, armor_map, armorset_bonus_map, armor_errors,
                    armor_warnings>>

validateVars == <<mhdata, validate_errors, printed, result>>

checkVars == <<weaponVars, armorCheckVars, validateVars>>

vars == <<sys, pc, treeVars, armorVars, rewardVars, skillVars, checkVars>>

(***************************************************************************)
(* Bounds of the model.                                                    *)
(***************************************************************************)
NumWeapons == 3     \* weapon records (ids 1..NumWeapons) and upgrade entries
MaxEdges == 2       \* nonzero descendant slots in the whole upgrade table
MaxYield == 6       \* items taken from the crafted() generator
NumArmor == 3       \* armor records (ids 1..NumArmor)
NumSets == 3        \* armor set ids 1..NumSets (0 is "no set")
MaxOrder == 3       \* sort orders 1..MaxOrder (0 is "no order")
NumRewards == 3     \* reward entries of a monster
MaxLevels == 3      \* declared effect levels of a skill

(***************************************************************************)
(* Python values.                                                          *)
(***************************************************************************)
None == "None"      \* a missing tree-group label
NoParent == 0       \* WeaponDataNode.parent = None (weapon ids are >= 1 here)
NoTree == [roots |-> <<>>, isolated |-> <<>>, returned |-> FALSE]

EmptyMap == [keys |-> <<>>, nodes |-> <<>>]

EmptyDict == [keys |-> <<>>, vals |-> <<>>]

(***************************************************************************)
(* The state of a function that is not running.                            *)
(***************************************************************************)
TreeIdle ==
    /\ weapon_binaries = <<>>
    /\ upgrade_data = <<>>
    /\ weapon_map = EmptyMap
    /\ weapon_descendants = <<>>
    /\ cur = 0
    /\ tree = NoTree
    /\ stack = <<>>
    /\ yielded = <<>>

ArmorIdle ==
    /\ armor_binaries = <<>>
    /\ armorset_text = <<>>
    /\ armor_by_setid = EmptyDict
    /\ armor_series = EmptyDict

RewardsIdle ==
    /\ monster_map = <<>>
    /\ reward_errors = {}
    /\ reward_warnings = <<>>

SkillsIdle ==
    /\ skill_map = <<>>
    /\ skill_errors = <<>>

WeaponsIdle ==
    /\ mhdata_weapon_map = <<>>
    /\ weapon_ammo_map = EmptyDict
    /\ weapon_errors = <<>>
    /\ weapon_warnings = <<>>

ArmorCheckIdle ==
    /\ armorset_map = <<>>
    /\ armor_map = <<>>
    /\ armorset_bonus_map = <<>>
    /\ armor_errors = <<>>
    /\ armor_warnings = <<>>

ValidateIdle ==
    /\ mhdata = <<>>
    /\ validate_errors = <<>>
    /\ printed = <<>>
    /\ result = None

ChecksIdle == WeaponsIdle /\ ArmorCheckIdle /\ ValidateIdle

Reverse(s) == [i \in 1..Len(s) |-> s[Len(s) + 1 - i]]

SeqToSet(s) == {s[i] : i \in 1..Len(s)}

\* any(descendants)
AnySlot(d) == \E i \in 1..Len(d) : d[i] # 0

\* wep_series text: tree id -> English tree name
TreeName(tree_id) == IF tree_id = 1 THEN "T1" ELSE IF tree_id = 2 THEN "T2" ELSE "T3"

(***************************************************************************)
(* WeaponDataLoader.__init__: upgrade_data_map, keyed by (wtype, equip_id);*)
(* a later entry of the table replaces an earlier one with the same key.   *)
(* The value is the position (1-based) of the entry, 0 when there is none. *)
(***************************************************************************)
UpgradeOf(table, wtype, id) ==
    LET hits == {i \in 1..Len(table) :
                    table[i].equip_type = wtype /\ table[i].equip_id = id}
    IN IF hits = {} THEN 0 ELSE CHOOSE i \in hits : \A j \in hits : j <= i

(***************************************************************************)
(* load_tree, first pass: one record. m is [keys, nodes], keys the         *)
(* insertion order of the dict and nodes its values.                       *)
(***************************************************************************)
NewNode(binary, wtype) ==
    [id |-> binary.id, wtype |-> wtype, name |-> binary.name,
     tree |-> IF binary.tree_id # 0 THEN TreeName(binary.tree_id) ELSE None,
     parent |-> NoParent, children |-> <<>>]

NameInvalid(name) == name = "" \/ name = "Invalid Message"

DictPut(m, key, value) ==
    [keys |-> IF key \in SeqToSet(m.keys) THEN m.keys ELSE Append(m.keys, key),
     nodes |-> [k \in DOMAIN m.nodes \cup {key} |->
                    IF k = key THEN value ELSE m.nodes[k]]]

RECURSIVE FirstPass(_, _, _, _, _)
FirstPass(binaries, table, wtype, m, desc) ==
    IF binaries = <<>> THEN [map |-> m, descendants |-> desc]
    ELSE LET binary == Head(binaries)
             u == UpgradeOf(table, wtype, binary.id)
             desc2 == IF u = 0 THEN desc
                      ELSE [k \in DOMAIN desc \cup {binary.id} |->
                               IF k = binary.id THEN table[u].descendants
                               ELSE desc[k]]
             m2 == IF NameInvalid(binary.name) THEN m
                   ELSE DictPut(m, binary.id, NewNode(binary, wtype))
         IN FirstPass(Tail(binaries), table, wtype, m2, desc2)

(***************************************************************************)
(* load_tree, second pass.  st is [nodes, ok]: the nodes of weapon_map and *)
(* whether no exception was raised so far.                                 *)
(***************************************************************************)
\* WeaponDataNode.add_child
add_child(nodes, self, child) ==
    LET n1 == [nodes EXCEPT ![child].parent = self]
    IN [n1 EXCEPT ![self].children = Append(@, child)]

\* self.upgrade_data[descendant_idx] and weapon_map[descendant_id] both succeed
\* (descendant_idx is a 0-based position of the table)
Resolves(table, nodes, descendant_idx) ==
    /\ descendant_idx < Len(table)
    /\ table[descendant_idx + 1].equip_id \in DOMAIN nodes

\* ConnectOne with a fault: an unresolved slot is skipped, not raised
ConnectOneSkip(st, weapon, descendant_idx, table) ==
    IF ~st.ok \/ descendant_idx = 0 THEN st
    ELSE IF ~Resolves(table, st.nodes, descendant_idx) THEN st
    ELSE [st EXCEPT !.nodes =
              add_child(st.nodes, weapon, table[descendant_idx + 1].equip_id)]

\* one iteration of "for descendant_idx in descendants"
ConnectOne(st, weapon, descendant_idx, table) ==
    IF ~st.ok \/ descendant_idx = 0 THEN st
    ELSE IF ~Resolves(table, st.nodes, descendant_idx) THEN [st EXCEPT !.ok = FALSE]
    ELSE [st EXCEPT !.nodes =
              add_child(st.nodes, weapon, table[descendant_idx + 1].equip_id)]

RECURSIVE ConnectSlots(_, _, _, _, _)
ConnectSlots(st, weapon, descendants, k, table) ==
    IF k > Len(descendants) THEN st
    ELSE ConnectSlots(ConnectOne(st, weapon, descendants[k], table),
                      weapon, descendants, k + 1, table)

\* Propagate with a fault: the label is copied onto every child
PropagateAll(nodes, weapon, descendants) ==
    IF descendants[1] = 0 THEN nodes
    ELSE [n \in DOMAIN nodes |->
            IF n \in SeqToSet(nodes[weapon].children)
            THEN [nodes[n] EXCEPT !.tree = nodes[weapon].tree]
            ELSE nodes[n]]

\* "if not is_last: weapon.children[0].tree = weapon.tree"
Propagate(nodes, weapon, descendants) ==
    LET is_last == descendants[1] = 0
    IN IF is_last THEN nodes
       ELSE [nodes EXCEPT ![nodes[weapon].children[1]].tree = nodes[weapon].tree]

\* weapon_descendants.get(weapon.id, [])
DescendantsOf(desc, id) == IF id \in DOMAIN desc THEN desc[id] ELSE <<>>

\* the body of "for weapon in weapon_map.values()" for one weapon
ConnectWeapon(nodes, weapon, desc, table) ==
    LET descendants == DescendantsOf(desc, weapon)
    IN IF ~AnySlot(descendants) THEN [nodes |-> nodes, ok |-> TRUE]
       ELSE LET st == ConnectSlots([nodes |-> nodes, ok |-> TRUE],
                                   weapon, descendants, 1, table)
            IN IF ~st.ok THEN st
               ELSE [st EXCEPT !.nodes = Propagate(st.nodes, weapon, descendants)]

(***************************************************************************)
(* WeaponTree.__init__: roots and isolated weapons, in insertion order.    *)
(***************************************************************************)
RECURSIVE SelectKeys(_, _, _)
SelectKeys(keys, nodes, want_tree) ==
    IF keys = <<>> THEN <<>>
    ELSE LET weapon == nodes[Head(keys)]
             rest == SelectKeys(Tail(keys), nodes, want_tree)
         IN IF weapon.parent # NoParent THEN rest
            ELSE IF (weapon.tree = None) = want_tree THEN rest
            ELSE <<Head(keys)>> \o rest

WeaponTree(m) ==
    [roots |-> SelectKeys(m.keys, m.nodes, TRUE),
     isolated |-> SelectKeys(m.keys, m.nodes, FALSE),
     returned |-> TRUE]

(***************************************************************************)
(* Inputs of load_tree.                                                    *)
(***************************************************************************)
WType == "great-sword"

WeaponName(id) == IF id = 1 THEN "Buster Sword" ELSE IF id = 2 THEN "Jagras Blade"
                  ELSE IF id = 3 THEN "Bone Blade" ELSE "Iron Sword"

WeaponIds == 1..NumWeapons

\* tree-group ids of the records: 0 is "no tree group"
TreeIds == {0, 1}

\* the weapon records: ids 1..NumWeapons in file order, any tree ids, at most
\* one of them (record u, none when u = 0) with an empty or placeholder name
WeaponInputs ==
    {[i \in WeaponIds |->
        [id |-> i,
         name |-> IF i = u THEN bad ELSE WeaponName(i),
         tree_id |-> t[i]]] :
        u \in 0..NumWeapons, bad \in {"", "Invalid Message"},
        t \in [WeaponIds -> TreeIds]}

EmptySlots == <<0, 0, 0, 0>>

\* the upgrade tables with at most k nonzero descendant slots: the entry at
\* 0-based position i - 1 is the one of weapon i; slots 1 and 2 hold 0 or a
\* table position 1..NumWeapons (NumWeapons is past the end of the table),
\* slots 3 and 4 are empty
RECURSIVE Tables(_)
Tables(k) ==
    IF k = 0
    THEN {[i \in WeaponIds |->
             [equip_type |-> WType, equip_id |-> i, descendants |-> EmptySlots]]}
    ELSE LET less == Tables(k - 1)
         IN less \cup {[t EXCEPT ![i].descendants[s] = v] :
                          t \in less, i \in WeaponIds, s \in 1..2, v \in 1..NumWeapons}

UpgradeInputs == Tables(MaxEdges)

TreeInit ==
    /\ sys = "load_tree"
    /\ pc = "start"
    /\ weapon_binaries \in WeaponInputs
    /\ upgrade_data \in UpgradeInputs
    /\ weapon_map = EmptyMap
    /\ weapon_descendants = <<>>
    /\ cur = 0
    /\ tree = NoTree
    /\ stack = <<>>
    /\ yielded = <<>>
    /\ ArmorIdle /\ RewardsIdle /\ SkillsIdle /\ ChecksIdle

(***************************************************************************)
(* Actions of load_tree and of the tree it returns.                        *)
(***************************************************************************)
\* first pass: the weapon map and the descendant slots
LoadFirstPass ==
    /\ sys = "load_tree" /\ pc = "start"
    /\ LET r == FirstPass(weapon_binaries, upgrade_data, WType, EmptyMap, <<>>)
       IN /\ weapon_map' = r.map
          /\ weapon_descendants' = r.descendants
    /\ cur' = 1
    /\ pc' = "connect"
    /\ UNCHANGED <<sys, weapon_binaries, upgrade_data, tree, stack, yielded, armorVars, rewardVars, skillVars, checkVars>>

\* second pass: one weapon of weapon_map.values(); an unresolved slot raises
Connect ==
    /\ sys = "load_tree" /\ pc = "connect"
    /\ cur <= Len(weapon_map.keys)
    /\ LET st == ConnectWeapon(weapon_map.nodes, weapon_map.keys[cur],
                               weapon_descendants, upgrade_data)
       IN /\ weapon_map' = [weapon_map EXCEPT !.nodes = st.nodes]
          /\ pc' = IF st.ok THEN "connect" ELSE "error"
    /\ cur' = cur + 1
    /\ UNCHANGED <<sys, weapon_binaries, upgrade_data, weapon_descendants,
                   tree, stack, yielded, armorVars, rewardVars, skillVars, checkVars>>

\* return WeaponTree(weapon_map)
ReturnTree ==
    /\ sys = "load_tree" /\ pc = "connect"
    /\ cur > Len(weapon_map.keys)
    /\ tree' = WeaponTree(weapon_map)
    /\ pc' = "returned"
    /\ UNCHANGED <<sys, weapon_binaries, upgrade_data, weapon_map,
                   weapon_descendants, cur, stack, yielded, armorVars, rewardVars, skillVars, checkVars>>

\* crafted(): stack = [], stack.extend(reversed(self.roots))
CraftedStart ==
    /\ sys = "load_tree" /\ pc = "returned"
    /\ stack' = Reverse(tree.roots)
    /\ pc' = "crafted"
    /\ UNCHANGED <<sys, weapon_binaries, upgrade_data, weapon_map,
                   weapon_descendants, cur, tree, yielded, armorVars, rewardVars, skillVars, checkVars>>

\* crafted(): "while stack" with an item on the stack: pop it and yield it;
\* the generator is suspended at the yield until the next item is asked for
CraftedYield ==
    /\ sys = "load_tree" /\ pc = "crafted"
    /\ stack # <<>>
    /\ Len(yielded) < MaxYield
    /\ LET current_item == stack[Len(stack)]
       IN /\ yielded' = Append(yielded, current_item)
          /\ stack' = SubSeq(stack, 1, Len(stack) - 1)
    /\ pc' = "yielded"
    /\ UNCHANGED <<sys, weapon_binaries, upgrade_data, weapon_map,
                   weapon_descendants, cur, tree, armorVars, rewardVars, skillVars, checkVars>>

\* crafted() resumed after the yield: the children of the item just yielded
\* go on the stack, reversed, and the loop tests the stack again
CraftedResume ==
    /\ sys = "load_tree" /\ pc = "yielded"
    /\ LET current_item == yielded[Len(yielded)]
       IN stack' = stack \o Reverse(weapon_map.nodes[current_item].children)
    /\ pc' = "crafted"
    /\ UNCHANGED <<sys, weapon_binaries, upgrade_data, weapon_map,
                   weapon_descendants, cur, tree, yielded, armorVars, rewardVars, skillVars, checkVars>>

\* crafted(): the stack is empty, the generator is exhausted
CraftedStop ==
    /\ sys = "load_tree" /\ pc = "crafted"
    /\ stack = <<>>
    /\ pc' = "exhausted"
    /\ UNCHANGED <<sys, treeVars, armorVars, rewardVars, skillVars, checkVars>>

TreeNext ==
    \/ LoadFirstPass
    \/ Connect
    \/ ReturnTree
    \/ CraftedStart
    \/ CraftedYield
    \/ CraftedResume
    \/ CraftedStop

SpecTree == TreeInit /\ [][TreeNext]_vars

(***************************************************************************)
(* load_tree on weapon records in any file order, with upgrade tables that *)
(* describe a forest: every slot resolves, no weapon is the descendant of  *)
(* two slots, and no weapon descends from itself.                          *)
(***************************************************************************)
\* the orders of the records in the file
RecordOrders ==
    {q \in [WeaponIds -> WeaponIds] : \A i, j \in WeaponIds : q[i] = q[j] => i = j}

\* the weapon records, all named, in any order and with any tree ids
OrderedWeaponInputs ==
    {[i \in WeaponIds |-> [id |-> q[i], name |-> WeaponName(q[i]), tree_id |-> t[q[i]]]] :
        q \in RecordOrders, t \in [WeaponIds -> TreeIds]}

\* the slots <<weapon, slot>> of the table that name a descendant
SlotsOf(table) ==
    {x \in WeaponIds \X (1..4) : table[x[1]].descendants[x[2]] # 0}

\* the weapon the slot names (descendant_idx is a 0-based position)
SlotChild(table, x) == table[x[1]].descendants[x[2]] + 1

\* the weapons reached from the weapons of S in 1..k steps
RECURSIVE ReachIn(_, _, _)
ReachIn(table, S, k) ==
    IF k = 0 THEN {}
    ELSE LET next == {SlotChild(table, x) : x \in {y \in SlotsOf(table) : y[1] \in S}}
         IN next \cup ReachIn(table, next, k - 1)

ForestShaped(table) ==
    /\ \A x \in SlotsOf(table) : SlotChild(table, x) \in WeaponIds
    /\ \A x, y \in SlotsOf(table) : SlotChild(table, x) = SlotChild(table, y) => x = y
    /\ \A w \in WeaponIds : w \notin ReachIn(table, {w}, NumWeapons)

ForestInputs == {table \in UpgradeInputs : ForestShaped(table)}

OrderInit ==
    /\ sys = "load_tree"
    /\ pc = "start"
    /\ weapon_binaries \in OrderedWeaponInputs
    /\ upgrade_data \in ForestInputs
    /\ weapon_map = EmptyMap
    /\ weapon_descendants = <<>>
    /\ cur = 0
    /\ tree = NoTree
    /\ stack = <<>>
    /\ yielded = <<>>
    /\ ArmorIdle /\ RewardsIdle /\ SkillsIdle /\ ChecksIdle

SpecOrder == OrderInit /\ [][TreeNext]_vars

(***************************************************************************)
(* load_armor_series.                                                      *)
(***************************************************************************)
\* d[key] = value on an insertion-ordered dict: a new key goes last, a key
\* that is present keeps its place and takes the new value
Put(d, key, value) ==
    [keys |-> IF key \in SeqToSet(d.keys) THEN d.keys ELSE Append(d.keys, key),
     vals |-> [k \in DOMAIN d.vals \cup {key} |-> IF k = key THEN value ELSE d.vals[k]]]

\* list(d.values())
Values(d) == [i \in 1..Len(d.keys) |-> d.vals[d.keys[i]]]

\* the inclusion filter of the parsing loop
ArmorKept(armor_binary) ==
    /\ armor_binary.name # ""
    /\ armor_binary.set_id # 0
    /\ armor_binary.type = 0
    /\ armor_binary.gender # 0
    /\ armor_binary.order # 0
    /\ armor_binary.recipe

\* armor_by_setid.setdefault(set_id, []); armor_by_setid[set_id].append(armor_data)
RECURSIVE GroupBySetId(_, _)
GroupBySetId(binaries, d) ==
    IF binaries = <<>> THEN d
    ELSE LET b == Head(binaries)
             old == IF b.set_id \in SeqToSet(d.keys) THEN d.vals[b.set_id] ELSE <<>>
         IN GroupBySetId(Tail(binaries),
                         IF ArmorKept(b) THEN Put(d, b.set_id, Append(old, b)) ELSE d)

\* ArmorData.part
ArmorPart(armor) ==
    <<"head", "chest", "arms", "waist", "legs", "charm">>[armor.equip_slot + 1]

\* ArmorData.rank
ArmorRank(armor) == IF armor.variant = 0 THEN "LR" ELSE "HR"

\* min(self.armors, key=lambda a: a.order).order
MinOrder(armors) ==
    CHOOSE o \in {armors[i].order : i \in 1..Len(armors)} :
        \A i \in 1..Len(armors) : o <= armors[i].order

\* { a.part: a for a in self.armors }: the last armor of a part stays
ArmorByPart(armors) ==
    [p \in {ArmorPart(armors[i]) : i \in 1..Len(armors)} |->
        armors[CHOOSE i \in 1..Len(armors) :
                  /\ ArmorPart(armors[i]) = p
                  /\ \A j \in 1..Len(armors) : ArmorPart(armors[j]) = p => j <= i]]

\* ArmorSetData.__init__
ArmorSetData(name, armors) ==
    [name |-> name, armors |-> armors, order |-> MinOrder(armors),
     armor_by_part |-> ArmorByPart(armors)]

\* ArmorSetData.rank and rank_order
SetRank(aset) == ArmorRank(aset.armors[1])

RankOrder(aset) == IF SetRank(aset) = "LR" THEN 0 ELSE 1

\* the sort key (a.rank_order, a.order) compared as a tuple
KeyLess(a, b) ==
    \/ RankOrder(a) < RankOrder(b)
    \/ RankOrder(a) = RankOrder(b) /\ a.order < b.order

\* insertion of x into a sorted list, after the elements that are not greater
RECURSIVE InsertSorted(_, _)
InsertSorted(sorted, x) ==
    IF sorted = <<>> THEN <<x>>
    ELSE IF KeyLess(x, Head(sorted)) THEN <<x>> \o sorted
    ELSE <<Head(sorted)>> \o InsertSorted(Tail(sorted), x)

\* armor_sets.sort(key=...): a stable sort
RECURSIVE SortSets(_)
SortSets(sets) ==
    IF sets = <<>> THEN <<>>
    ELSE InsertSorted(SortSets(SubSeq(sets, 1, Len(sets) - 1)), sets[Len(sets)])

\* the assembly loop over armor_by_setid.items()
AssembleSets(d, text) ==
    [i \in 1..Len(d.keys) |-> ArmorSetData(text[d.keys[i]], d.vals[d.keys[i]])]

\* { aset.name['en']: aset for aset in armor_sets }
RECURSIVE ByName(_, _)
ByName(sets, d) ==
    IF sets = <<>> THEN d
    ELSE ByName(Tail(sets), Put(d, Head(sets).name, Head(sets)))

(***************************************************************************)
(* Inputs of load_armor_series.                                            *)
(***************************************************************************)
ArmorIds == 1..NumArmor

ArmorName(id) == IF id = 1 THEN "Leather Headgear" ELSE IF id = 2 THEN "Leather Mail"
                 ELSE IF id = 3 THEN "Chain Helm" ELSE "Chain Mail"

\* a record that passes the filter
GoodArmor(id, set_id, order, equip_slot, variant) ==
    [id |-> id, name |-> ArmorName(id), set_id |-> set_id, type |-> 0, gender |-> 1,
     order |-> order, equip_slot |-> equip_slot, variant |-> variant, recipe |-> TRUE]

\* the records of one id: those that pass the filter, with any set, order,
\* part (head or chest) and rank, and one record for each reason to drop it
ArmorChoices(id) ==
    {GoodArmor(id, s, o, e, v) :
        s \in 1..NumSets, o \in 1..MaxOrder, e \in {0, 1}, v \in {0, 1}}
    \cup {[GoodArmor(id, 1, 1, 0, 0) EXCEPT !.name = ""],
          [GoodArmor(id, 1, 1, 0, 0) EXCEPT !.set_id = 0],
          [GoodArmor(id, 1, 1, 0, 0) EXCEPT !.type = 1],
          [GoodArmor(id, 1, 1, 0, 0) EXCEPT !.gender = 0],
          [GoodArmor(id, 1, 1, 0, 0) EXCEPT !.order = 0],
          [GoodArmor(id, 1, 1, 0, 0) EXCEPT !.recipe = FALSE]}

ArmorInputs ==
    {b \in [ArmorIds -> UNION {ArmorChoices(i) : i \in ArmorIds}] :
        \A i \in ArmorIds : b[i].id = i}

SetName(set_id) == IF set_id = 1 THEN "Leather" ELSE IF set_id = 2 THEN "Chain"
                   ELSE IF set_id = 3 THEN "Hunter's" ELSE "Bone"

\* the set names: all different, or the last set id named like the first
SetTextInputs ==
    {[s \in 1..NumSets |-> SetName(s)],
     [s \in 1..NumSets |-> IF s = NumSets THEN SetName(1) ELSE SetName(s)]}

ArmorInit ==
    /\ sys = "load_armor_series"
    /\ pc = "start"
    /\ armor_binaries \in ArmorInputs
    /\ armorset_text \in SetTextInputs
    /\ armor_by_setid = EmptyDict
    /\ armor_series = EmptyDict
    /\ TreeIdle /\ RewardsIdle /\ SkillsIdle /\ ChecksIdle

\* the parsing loop: filter and group by set id
ParseArmor ==
    /\ sys = "load_armor_series" /\ pc = "start"
    /\ armor_by_setid' = GroupBySetId(armor_binaries, EmptyDict)
    /\ pc' = "grouped"
    /\ UNCHANGED <<sys, treeVars, armor_binaries, armorset_text, armor_series,
                   rewardVars, skillVars, checkVars>>

\* assemble the sets, sort them, return them by name
AssembleArmor ==
    /\ sys = "load_armor_series" /\ pc = "grouped"
    /\ armor_series' = ByName(SortSets(AssembleSets(armor_by_setid, armorset_text)),
                              EmptyDict)
    /\ pc' = "returned"
    /\ UNCHANGED <<sys, treeVars, armor_binaries, armorset_text, armor_by_setid,
                   rewardVars, skillVars, checkVars>>

ArmorNext ==
    \/ ParseArmor
    \/ AssembleArmor

SpecArmor == ArmorInit /\ [][ArmorNext]_vars

(***************************************************************************)
(* validate_monster_rewards.                                               *)
(***************************************************************************)
\* uncapped_conditions = ("Quest Reward (Bronze)"): parentheses without a
\* comma, so the value is the string itself and not a tuple of one string
uncapped_conditions == "Quest Reward (Bronze)"

\* cfg.supported_ranks
supported_ranks == {"LR", "HR"}

\* mhdata.monster_reward_conditions_map.names('en') and mhdata.item_map.names('en')
ConditionNames == {"Carve", "Quest Reward", "Quest Reward (Bronze)"}

ItemNames == {"Potion"}

\* a in b for two Python strings: a occurs in b as a substring
IsSubstring(a, b) ==
    \E i \in 1..(Len(b) + 1) :
        i + Len(a) - 1 <= Len(b) /\ SubSeq(b, i, i + Len(a) - 1) = a

\* "condition not in uncapped_conditions" is false
IsUncapped(condition) == IsSubstring(condition, uncapped_conditions)

\* the strings of the model in Python's order (by code point)
StringOrder ==
    <<"Carve", "HR", "LR", "MR", "Quest Reward", "Quest Reward (Bronze)", "Unlisted">>

StrIndex(str) == CHOOSE i \in 1..Len(StringOrder) : StringOrder[i] = str

\* rank_reward_key_fn
RewardKey(r) == <<r.rank, r.condition_en>>

\* key a < key b, as tuples of strings
RewardKeyLess(a, b) ==
    \/ StrIndex(a[1]) < StrIndex(b[1])
    \/ a[1] = b[1] /\ StrIndex(a[2]) < StrIndex(b[2])

RECURSIVE InsertReward(_, _)
InsertReward(sorted, r) ==
    IF sorted = <<>> THEN <<r>>
    ELSE IF RewardKeyLess(RewardKey(r), RewardKey(Head(sorted))) THEN <<r>> \o sorted
    ELSE <<Head(sorted)>> \o InsertReward(Tail(sorted), r)

\* sorted(entry['rewards'], key=rank_reward_key_fn): a stable sort
RECURSIVE SortRewards(_)
SortRewards(rewards) ==
    IF rewards = <<>> THEN <<>>
    ELSE InsertReward(SortRewards(SubSeq(rewards, 1, Len(rewards) - 1)),
                      rewards[Len(rewards)])

\* itertools.groupby: the runs of consecutive rewards with one key
RECURSIVE GroupBy(_, _)
GroupBy(rewards, groups) ==
    IF rewards = <<>> THEN groups
    ELSE LET r == Head(rewards)
             n == Len(groups)
         IN IF n > 0 /\ groups[n].key = RewardKey(r)
            THEN GroupBy(Tail(rewards),
                         [groups EXCEPT ![n].items = Append(@, r)])
            ELSE GroupBy(Tail(rewards),
                         Append(groups, [key |-> RewardKey(r), items |-> <<r>>]))

\* sum((int(r['percentage']) for r in items), 0)
RECURSIVE PercentageSum(_)
PercentageSum(items) ==
    IF items = <<>> THEN 0 ELSE Head(items).percentage + PercentageSum(Tail(items))

\* the two ensure_warn calls on one group: the calls whose condition is false
GroupWarning(monster_name, group) ==
    LET percentage_sum == PercentageSum(group.items)
        rank == group.key[1]
        condition == group.key[2]
    IN IF ~IsUncapped(condition)
       THEN IF percentage_sum = 100 THEN <<>>
            ELSE <<[text |-> "does not sum to 100", monster |-> monster_name,
                    rank |-> rank, condition |-> condition]>>
       ELSE IF percentage_sum >= 100 THEN <<>>
            ELSE <<[text |-> "does not sum to at least 100", monster |-> monster_name,
                    rank |-> rank, condition |-> condition]>>

RECURSIVE GroupWarnings(_, _)
GroupWarnings(monster_name, groups) ==
    IF groups = <<>> THEN <<>>
    ELSE GroupWarning(monster_name, Head(groups))
         \o GroupWarnings(monster_name, Tail(groups))

\* the errors the existence checks add for one reward
RewardErrors(monster_name, reward) ==
    (IF reward.condition_en \notin ConditionNames
     THEN {[text |-> "Invalid condition", what |-> reward.condition_en,
            monster |-> monster_name]}
     ELSE {})
    \cup (IF reward.item_en \notin ItemNames
          THEN {[text |-> "Monster reward item doesn't exist", what |-> reward.item_en,
                 monster |-> ""]}
          ELSE {})
    \cup (IF reward.rank \notin supported_ranks
          THEN {[text |-> "Unsupported rank", what |-> reward.rank,
                 monster |-> monster_name]}
          ELSE {})

\* the body of "for monster_id, entry in mhdata.monster_map.items()"
ValidateEntry(entry) ==
    IF ~entry.has_rewards THEN [errors |-> {}, warnings |-> <<>>]
    ELSE LET errs == UNION {RewardErrors(entry.name, entry.rewards[i]) :
                               i \in 1..Len(entry.rewards)}
         IN IF errs # {} THEN [errors |-> errs, warnings |-> <<>>]
            ELSE [errors |-> {},
                  warnings |-> GroupWarnings(entry.name,
                                   GroupBy(SortRewards(entry.rewards), <<>>))]

RECURSIVE validate_monster_rewards(_)
validate_monster_rewards(monsters) ==
    IF monsters = <<>> THEN [errors |-> {}, warnings |-> <<>>]
    ELSE LET head == ValidateEntry(Head(monsters))
             rest == validate_monster_rewards(Tail(monsters))
         IN [errors |-> head.errors \cup rest.errors,
             warnings |-> head.warnings \o rest.warnings]

\* a reward entry that passes the existence checks
GoodReward(condition, rank, percentage) ==
    [condition_en |-> condition, rank |-> rank, item_en |-> "Potion",
     percentage |-> percentage]

\* the reward entries: any listed condition, supported rank and percentage,
\* and one entry for each existence check that fails
RewardChoices ==
    {GoodReward(c, r, p) : c \in ConditionNames, r \in supported_ranks,
                           p \in {25, 35, 40, 50}}
    \cup {[GoodReward("Carve", "LR", 50) EXCEPT !.condition_en = "Unlisted"],
          [GoodReward("Carve", "LR", 50) EXCEPT !.item_en = "Unlisted"],
          [GoodReward("Carve", "LR", 50) EXCEPT !.rank = "MR"]}

RECURSIVE SeqsUpTo(_, _)
SeqsUpTo(S, n) ==
    IF n = 0 THEN {<<>>}
    ELSE LET less == SeqsUpTo(S, n - 1)
         IN less \cup {Append(q, x) : q \in less, x \in S}

\* one monster, with up to NumRewards rewards or without the rewards field
MonsterInputs ==
    {<<[name |-> "Anjanath", has_rewards |-> TRUE, rewards |-> rs]>> :
        rs \in SeqsUpTo(RewardChoices, NumRewards)}
    \cup {<<[name |-> "Anjanath", has_rewards |-> FALSE, rewards |-> <<>>]>>}

RewardsInit ==
    /\ sys = "validate_monster_rewards"
    /\ pc = "start"
    /\ monster_map \in MonsterInputs
    /\ reward_errors = {}
    /\ reward_warnings = <<>>
    /\ TreeIdle /\ ArmorIdle /\ SkillsIdle /\ ChecksIdle

ValidateRewards ==
    /\ sys = "validate_monster_rewards" /\ pc = "start"
    /\ LET r == validate_monster_rewards(monster_map)
       IN /\ reward_errors' = r.errors
          /\ reward_warnings' = r.warnings
    /\ pc' = "done"
    /\ UNCHANGED <<sys, monster_map, treeVars, armorVars, skillVars, checkVars>>

RewardsNext == ValidateRewards

SpecRewards == RewardsInit /\ [][RewardsNext]_vars

(***************************************************************************)
(* validate_skills.                                                        *)
(***************************************************************************)
\* the loop over skill['levels'] and the check that follows it; st is
\* [errors, encountered_levels]
\* SkillLevels with a fault: no "continue" after the out-of-range error, so
\* the value is recorded as encountered all the same
RECURSIVE SkillLevelsNoContinue(_, _, _, _)
SkillLevelsNoContinue(skill_name, levels, expected_max, st) ==
    IF levels = <<>> THEN st
    ELSE LET level_value == Head(levels)
             errs == IF level_value < 0 \/ level_value > expected_max
                     THEN Append(st.errors, [text |-> "has out of range effect",
                                             skill |-> skill_name, value |-> level_value])
                     ELSE st.errors
         IN SkillLevelsNoContinue(skill_name, Tail(levels), expected_max,
                [errors |-> errs,
                 encountered_levels |-> st.encountered_levels \cup {level_value}])

RECURSIVE SkillLevels(_, _, _, _)
SkillLevels(skill_name, levels, expected_max, st) ==
    IF levels = <<>> THEN st
    ELSE LET level_value == Head(levels)
         IN IF level_value < 0 \/ level_value > expected_max
            THEN SkillLevels(skill_name, Tail(levels), expected_max,
                     [st EXCEPT !.errors =
                         Append(@, [text |-> "has out of range effect",
                                    skill |-> skill_name, value |-> level_value])])
            ELSE SkillLevels(skill_name, Tail(levels), expected_max,
                     [st EXCEPT !.encountered_levels = @ \cup {level_value}])

\* the body of "for skill in mhdata.skill_map.values()"
ValidateSkill(skill, errors) ==
    LET expected_max == Len(skill.levels)
        st == SkillLevels(skill.name, skill.levels, expected_max,
                          [errors |-> errors, encountered_levels |-> {}])
    IN IF Cardinality(st.encountered_levels) # expected_max
       THEN Append(st.errors, [text |-> "is missing effect levels",
                               skill |-> skill.name, value |-> 0])
       ELSE st.errors

RECURSIVE validate_skills(_, _)
validate_skills(skills, errors) ==
    IF skills = <<>> THEN errors
    ELSE validate_skills(Tail(skills), ValidateSkill(Head(skills), errors))

\* one skill with up to MaxLevels levels, each valued -1..MaxLevels + 1
SkillInputs ==
    {<<[name |-> "Attack Boost", levels |-> ls]>> :
        ls \in SeqsUpTo(-1..(MaxLevels + 1), MaxLevels)}

SkillsInit ==
    /\ sys = "validate_skills"
    /\ pc = "start"
    /\ skill_map \in SkillInputs
    /\ skill_errors = <<>>
    /\ TreeIdle /\ ArmorIdle /\ RewardsIdle /\ ChecksIdle

ValidateSkills ==
    /\ sys = "validate_skills" /\ pc = "start"
    /\ skill_errors' = validate_skills(skill_map, <<>>)
    /\ pc' = "done"
    /\ UNCHANGED <<sys, skill_map, treeVars, armorVars, rewardVars, checkVars>>

SkillsNext == ValidateSkills

SpecSkills == SkillsInit /\ [][SkillsNext]_vars

(***************************************************************************)
(* validate_weapons.  A dict entry is a record with a field "keys", the    *)
(* keys the entry has; a key it lacks still has a field, which is not read.*)
(***************************************************************************)
NumEntries == 2     \* entries of mhdata.weapon_map

\* the weapon groupings of cfg
weapon_types_melee == {"great-sword", "hunting-horn"}

weapon_types_gun == {"light-bowgun", "heavy-bowgun"}

HUNTING_HORN == "hunting-horn"

BOW == "bow"

\* cfg.weapon_multiplier, in tenths
weapon_multiplier ==
    [t \in {"hunting-horn", "bow", "light-bowgun", "heavy-bowgun"} |->
        IF t = "hunting-horn" THEN 42 ELSE IF t = "bow" THEN 12
        ELSE IF t = "light-bowgun" THEN 13 ELSE 15]

\* key in d
Has(d, key) == key \in d.keys

\* d.get(key, None) is truthy, for a string, an integer and a list value
TruthyStr(d, key) == Has(d, key) /\ d[key] \notin {None, ""}

TruthyInt(d, key) == Has(d, key) /\ d[key] # 0

TruthySeq(d, key) == Has(d, key) /\ d[key] # <<>>

WeaponError(text, name, detail) == [text |-> text, name |-> name, detail |-> detail]

\* if cond: errors.append(e)
AppendIf(errs, cond, e) == IF cond THEN Append(errs, e) ELSE errs

RECURSIVE Concat(_)
Concat(ss) == IF ss = <<>> THEN <<>> ELSE Head(ss) \o Concat(Tail(ss))

\* the recipe checks of a weapon that is not a Kulve weapon; a recipe is the
\* list of the item names iter_weapon_recipe yields
RecipeChecks(entry, errs) ==
    IF entry.category # "Kulve"
    THEN IF ~TruthySeq(entry, "craft")
         THEN Append(errs, WeaponError("does not have any recipes", entry.name, ""))
         ELSE LET Unknown(item) == item \notin ItemNames
                  bad == SelectSeq(Concat(entry.craft), Unknown)
              IN errs \o [i \in 1..Len(bad) |->
                            WeaponError("has invalid item in a recipe", entry.name, bad[i])]
    ELSE errs

\* sharpness, notes and bow data of the weapon types that need them
AttributeChecks(entry, errs) ==
    LET e1 == AppendIf(errs, entry.weapon_type \in weapon_types_melee
                               /\ ~TruthyStr(entry, "sharpness"),
                       WeaponError("does not have a sharpness value", entry.name, ""))
        e2 == AppendIf(e1, entry.weapon_type = HUNTING_HORN /\ ~TruthyStr(entry, "notes"),
                       WeaponError("is missing a notes value", entry.name, ""))
    IN AppendIf(e2, entry.weapon_type = BOW /\ ~TruthyStr(entry, "bow"),
                WeaponError("is missing bow data", entry.name, ""))

\* AmmoChecks with a fault: "if" in place of "elif", so that a weapon without
\* an ammo config also fails the table lookup
AmmoChecksBoth(entry, ammo_map, errs) ==
    IF entry.weapon_type \in weapon_types_gun
    THEN LET e1 == AppendIf(errs, ~TruthyStr(entry, "ammo_config"),
                            WeaponError("is missing ammo config", entry.name, ""))
         IN AppendIf(e1, ~Has(entry, "ammo_config")
                           \/ entry.ammo_config \notin SeqToSet(ammo_map.keys),
                     WeaponError("has invalid ammo config", entry.name, ""))
    ELSE errs

\* the ammo config of a bowgun
AmmoChecks(entry, ammo_map, errs) ==
    IF entry.weapon_type \in weapon_types_gun
    THEN IF ~TruthyStr(entry, "ammo_config")
         THEN Append(errs, WeaponError("is missing ammo config", entry.name, ""))
         ELSE IF entry.ammo_config \notin SeqToSet(ammo_map.keys)
              THEN Append(errs, WeaponError("has invalid ammo config", entry.name, ""))
              ELSE errs
    ELSE errs

\* element attack, and dragon element with elderseal; element1_attack None
\* is 0 here, as "or 0" makes it
ElementChecks(entry, errs) ==
    LET has_elderseal == entry.elderseal # None
        is_dragon == \/ entry.element1 = "Dragon"
                     \/ entry.element2 = "Dragon"
                     \/ entry.phial = "dragon"
        e1 == AppendIf(errs, entry.element1 \notin {None, ""} /\ entry.element1_attack = 0,
                       WeaponError("has an element but is missing an attack value",
                                   entry.name, ""))
        e2 == AppendIf(e1, has_elderseal /\ ~is_dragon,
                       WeaponError("has elderseal but no dragon element", entry.name, ""))
    IN AppendIf(e2, is_dragon /\ ~has_elderseal,
                WeaponError("has a dragon element but no elderseal", entry.name, ""))

\* int(true_attack) != true_attack
SuspiciousAttack(entry) == (entry.attack * 10) % weapon_multiplier[entry.weapon_type] # 0

\* one round of the loop over the weapon entries
ValidateWeaponEntry(entry, ammo_map, st) ==
    [errors |-> ElementChecks(entry,
                    AmmoChecks(entry, ammo_map,
                        AttributeChecks(entry, RecipeChecks(entry, st.errors)))),
     warnings |-> AppendIf(st.warnings, SuspiciousAttack(entry),
                           [text |-> "has a suspicious true attack value",
                            name |-> entry.name])]

RECURSIVE ValidateWeaponEntries(_, _, _)
ValidateWeaponEntries(entries, ammo_map, st) ==
    IF entries = <<>> THEN st
    ELSE ValidateWeaponEntries(Tail(entries), ammo_map,
                               ValidateWeaponEntry(Head(entries), ammo_map, st))

\* the checks of one bullet type of an ammo entry
AmmoDataChecks(name, key, data, errs) ==
    IF ~data.mapping \/ ~Has(data, "clip") THEN errs
    ELSE IF data.clip = 0
         THEN LET e1 == AppendIf(errs, Has(data, "rapid") /\ data.rapid = TRUE,
                                 WeaponError("has invalid rapid value", name, key))
                  e2 == AppendIf(e1, TruthyInt(data, "recoil"),
                                 WeaponError("has invalid recoil value", name, key))
              IN AppendIf(e2, TruthyStr(data, "reload"),
                          WeaponError("has invalid reload value", name, key))
         ELSE LET e1 == AppendIf(errs, Has(data, "recoil") /\ ~TruthyInt(data, "recoil"),
                                 WeaponError("is missing recoil value", name, key))
              IN AppendIf(e1, ~TruthyStr(data, "reload"),
                          WeaponError("is missing reload value", name, key))

\* the loop over ammo_entry.items(), from position i
RECURSIVE AmmoEntryChecks(_, _, _, _)
AmmoEntryChecks(name, ammo_entry, i, errs) ==
    IF i > Len(ammo_entry.keys) THEN errs
    ELSE AmmoEntryChecks(name, ammo_entry, i + 1,
             AmmoDataChecks(name, ammo_entry.keys[i],
                            ammo_entry.vals[ammo_entry.keys[i]], errs))

\* the loop over weapon_ammo_map.items(), from position i
RECURSIVE AmmoMapChecks(_, _, _)
AmmoMapChecks(ammo_map, i, errs) ==
    IF i > Len(ammo_map.keys) THEN errs
    ELSE AmmoMapChecks(ammo_map, i + 1,
             AmmoEntryChecks(ammo_map.keys[i], ammo_map.vals[ammo_map.keys[i]], 1, errs))

validate_weapons(entries, ammo_map) ==
    LET st == ValidateWeaponEntries(entries, ammo_map, [errors |-> <<>>, warnings |-> <<>>])
    IN [errors |-> AmmoMapChecks(ammo_map, 1, st.errors), warnings |-> st.warnings]

EntryName(i) == IF i = 1 THEN "Blazooka" ELSE IF i = 2 THEN "Jagras Blitz"
                ELSE IF i = 3 THEN "Chain Blitz" ELSE "Iron Assault"

\* the value of ammo_config: "absent" is an entry without the key
AmmoConfigs == {"absent", None, "", "ammo_1", "ammo_9"}

\* an entry of the given type that passes every check but the ammo checks
BaseEntry(i, type, ammo) ==
    [name |-> EntryName(i), weapon_type |-> type, category |-> "Base",
     keys |-> {"craft", "sharpness", "notes", "bow"}
              \cup (IF ammo = "absent" THEN {} ELSE {"ammo_config"}),
     craft |-> << <<"Potion">> >>, sharpness |-> "sharpness", notes |-> "notes",
     bow |-> "bow", ammo_config |-> IF ammo = "absent" THEN None ELSE ammo,
     element1 |-> None, element1_attack |-> 0, element2 |-> None, phial |-> None,
     elderseal |-> None, attack |-> weapon_multiplier[type] * 10]

\* the entry, and the entry changed to meet each other check of the loop
Variations(e) ==
    {e,
     [e EXCEPT !.category = "Kulve", !.keys = @ \ {"craft"}],
     [e EXCEPT !.keys = @ \ {"craft"}],
     [e EXCEPT !.craft = << <<"Potion">>, <<"Unlisted", "Potion">> >>],
     [e EXCEPT !.keys = @ \ {"sharpness", "notes", "bow"}],
     [e EXCEPT !.element1 = "Fire"],
     [e EXCEPT !.element1 = "Dragon", !.element1_attack = 150],
     [e EXCEPT !.element1 = "Dragon", !.element1_attack = 150, !.elderseal = "low"],
     [e EXCEPT !.elderseal = "low"],
     [e EXCEPT !.attack = @ + 1]}

PlainEntries(i) == {BaseEntry(i, t, a) : t \in DOMAIN weapon_multiplier, a \in AmmoConfigs}

\* the weapon maps of k entries: the first entry in every variation
RECURSIVE EntryLists(_)
EntryLists(k) ==
    IF k = 1 THEN {<<v>> : v \in UNION {Variations(e) : e \in PlainEntries(1)}}
    ELSE {Append(q, e) : q \in EntryLists(k - 1), e \in PlainEntries(k)}

WeaponEntryInputs == EntryLists(NumEntries)

\* a bullet type with a clip, and the values that are not bullet types
GoodBullet == [mapping |-> TRUE, keys |-> {"clip", "rapid", "recoil", "reload"},
               clip |-> 5, rapid |-> FALSE, recoil |-> 2, reload |-> "fast"]

BulletChoices ==
    {GoodBullet,
     [GoodBullet EXCEPT !.clip = 0, !.keys = {"clip"}],
     [GoodBullet EXCEPT !.clip = 0, !.rapid = TRUE],
     [GoodBullet EXCEPT !.recoil = 0, !.keys = @ \ {"reload"}],
     [GoodBullet EXCEPT !.keys = @ \ {"recoil"}, !.reload = None],
     [GoodBullet EXCEPT !.keys = @ \ {"clip"}],
     [GoodBullet EXCEPT !.mapping = FALSE]}

\* the ammo tables: empty, or config "ammo_1" with one bullet type
AmmoInputs ==
    {EmptyDict}
    \cup {Put(EmptyDict, "ammo_1", Put(EmptyDict, "normal1", b)) : b \in BulletChoices}

WeaponsInit ==
    /\ sys = "validate_weapons"
    /\ pc = "start"
    /\ mhdata_weapon_map \in WeaponEntryInputs
    /\ weapon_ammo_map \in AmmoInputs
    /\ weapon_errors = <<>>
    /\ weapon_warnings = <<>>
    /\ TreeIdle /\ ArmorIdle /\ RewardsIdle /\ SkillsIdle
    /\ ArmorCheckIdle /\ ValidateIdle

ValidateWeapons ==
    /\ sys = "validate_weapons" /\ pc = "start"
    /\ LET r == validate_weapons(mhdata_weapon_map, weapon_ammo_map)
       IN /\ weapon_errors' = r.errors
          /\ weapon_warnings' = r.warnings
    /\ pc' = "done"
    /\ UNCHANGED <<sys, mhdata_weapon_map, weapon_ammo_map, treeVars, armorVars,
                   rewardVars, skillVars, armorCheckVars, validateVars>>

WeaponsNext == ValidateWeapons

SpecWeapons == WeaponsInit /\ [][WeaponsNext]_vars

(***************************************************************************)
(* validate_armor.                                                         *)
(***************************************************************************)
NumPieces == 2      \* entries of mhdata.armor_map (ids 1..NumPieces)
NumArmorSets == 2   \* entries of mhdata.armorset_map

\* cfg.armor_parts
armor_parts == <<"head", "chest", "arms", "waist", "legs">>

MonsterNames == {"Anjanath"}

SkillNames == {"Attack Boost"}

ArmorError(text, name, detail) == [text |-> text, name |-> name, detail |-> detail]

\* armor_map.id_of('en', armor_name): <<id>> for the id of the entry of that
\* name, <<>> for None
id_of(amap, armor_name) ==
    IF \E i \in 1..Len(amap) : amap[i].name = armor_name
    THEN <<amap[CHOOSE i \in 1..Len(amap) : amap[i].name = armor_name].id>>
    ELSE <<>>

\* not armor_id: None and 0 are both falsy
Falsy(armor_id) == armor_id = <<>> \/ armor_id[1] = 0

\* list(filter(None, ...))
FilterNone(s) ==
    LET Kept(x) == x \notin {None, ""}
    IN SelectSeq(s, Kept)

\* one round of the loop over the armor names of a set
CheckArmorName(setname, armor_name, amap, st) ==
    LET armor_id == id_of(amap, armor_name)
    IN IF Falsy(armor_id)
       THEN [st EXCEPT !.errors =
                Append(@, ArmorError("has invalid armor", setname, armor_name))]
       ELSE IF armor_id[1] \in st.encountered_armors
            THEN [st EXCEPT !.errors =
                     Append(@, ArmorError("has duplicated armor", setname, armor_name))]
            ELSE [st EXCEPT !.encountered_armors = @ \cup {armor_id[1]}]

RECURSIVE CheckArmorNames(_, _, _, _)
CheckArmorNames(setname, armor_names, amap, st) ==
    IF armor_names = <<>> THEN st
    ELSE CheckArmorNames(setname, Tail(armor_names), amap,
                         CheckArmorName(setname, Head(armor_names), amap, st))

\* one round of the loop over the armor sets
ValidateSetEntry(setentry, amap, st) ==
    LET setname == setentry.name
        monster_name == setentry.monster
        s1 == IF monster_name \notin {None, ""} /\ monster_name \notin MonsterNames
              THEN [st EXCEPT !.errors =
                       Append(@, ArmorError("has invalid monster", setname, monster_name))]
              ELSE st
        armor_names == FilterNone([i \in 1..Len(armor_parts) |-> setentry[armor_parts[i]]])
        s2 == IF armor_names = <<>>
              THEN [s1 EXCEPT !.warnings =
                       Append(@, [text |-> "has no armor entries", name |-> setname])]
              ELSE s1
    IN CheckArmorNames(setname, armor_names, amap, s2)

RECURSIVE ValidateSetEntries(_, _, _)
ValidateSetEntries(setentries, amap, st) ==
    IF setentries = <<>> THEN st
    ELSE ValidateSetEntries(Tail(setentries), amap,
                            ValidateSetEntry(Head(setentries), amap, st))

\* the errors of the names of s that are not in the set known
UnknownNames(s, known, text) ==
    LET Unknown(x) == x \notin known
        bad == SelectSeq(s, Unknown)
    IN [i \in 1..Len(bad) |-> ArmorError(text, bad[i], "")]

\* one round of the loop over the armor entries; recipe and skills are the
\* names iter_armor_recipe and iter_skill_points yield
ValidateArmorEntry(armor_entry, encountered_armors, errs) ==
    LET e1 == IF armor_entry.id \notin encountered_armors
              THEN Append(errs, ArmorError("is not in an armor set", armor_entry.name, ""))
              ELSE errs
    IN e1 \o UnknownNames(armor_entry.recipe, ItemNames, "Item in armors does not exist")
          \o UnknownNames(armor_entry.skills, SkillNames, "Skill in armors does not exist")

RECURSIVE ValidateArmorEntries(_, _, _)
ValidateArmorEntries(entries, encountered_armors, errs) ==
    IF entries = <<>> THEN errs
    ELSE ValidateArmorEntries(Tail(entries), encountered_armors,
                              ValidateArmorEntry(Head(entries), encountered_armors, errs))

\* the loop over the set bonuses; skills are the names iter_setbonus_skills yields
RECURSIVE ValidateBonuses(_, _)
ValidateBonuses(bonuses, errs) ==
    IF bonuses = <<>> THEN errs
    ELSE ValidateBonuses(Tail(bonuses),
             errs \o UnknownNames(Head(bonuses).skills, SkillNames,
                                  "Skill in set bonuses does not exist"))

validate_armor(setentries, amap, bonuses) ==
    LET st == ValidateSetEntries(setentries, amap,
                  [errors |-> <<>>, warnings |-> <<>>, encountered_armors |-> {}])
    IN [errors |-> ValidateBonuses(bonuses,
                       ValidateArmorEntries(amap, st.encountered_armors, st.errors)),
        warnings |-> st.warnings]

\* what a part of a set names: nothing, an armor of the map, or no armor
PartChoices == {None, "Unlisted"} \cup {ArmorName(i) : i \in 1..NumPieces}

SetEntry(s, monster, head, chest) ==
    [name |-> SetName(s), monster |-> monster, head |-> head, chest |-> chest,
     arms |-> None, waist |-> None, legs |-> None]

\* the set maps of k sets: any head and chest, and any monster for the first
RECURSIVE SetLists(_)
SetLists(k) ==
    IF k = 0 THEN {<<>>}
    ELSE {Append(q, SetEntry(k, m, h, c)) :
            q \in SetLists(k - 1), h \in PartChoices, c \in PartChoices,
            m \in IF k = 1 THEN {None, "Anjanath", "Unlisted"} ELSE {None}}

ArmorSetInputs == SetLists(NumArmorSets)

\* the armor entry at position i of the map, with the given id
ArmorEntry(i, id, recipe, skills) ==
    [id |-> id, name |-> ArmorName(i), recipe |-> recipe, skills |-> skills]

\* the armor maps: NumPieces entries with consecutive ids from 0 or from 1,
\* the first entry with a recipe and skills that exist or not
ArmorMapInputs ==
    {[i \in 1..NumPieces |->
        IF i = 1 THEN ArmorEntry(i, first, r, s)
        ELSE ArmorEntry(i, first + i - 1, <<"Potion">>, <<>>)] :
        first \in {0, 1},
        r \in {<<"Potion">>, <<"Potion", "Unlisted">>},
        s \in {<<>>, <<"Attack Boost">>, <<"Unlisted">>}}

BonusInputs == {<<>>, <<[skills |-> <<"Attack Boost">>]>>, <<[skills |-> <<"Unlisted">>]>>}

ArmorCheckInit ==
    /\ sys = "validate_armor"
    /\ pc = "start"
    /\ armorset_map \in ArmorSetInputs
    /\ armor_map \in ArmorMapInputs
    /\ armorset_bonus_map \in BonusInputs
    /\ armor_errors = <<>>
    /\ armor_warnings = <<>>
    /\ TreeIdle /\ ArmorIdle /\ RewardsIdle /\ SkillsIdle
    /\ WeaponsIdle /\ ValidateIdle

ValidateArmor ==
    /\ sys = "validate_armor" /\ pc = "start"
    /\ LET r == validate_armor(armorset_map, armor_map, armorset_bonus_map)
       IN /\ armor_errors' = r.errors
          /\ armor_warnings' = r.warnings
    /\ pc' = "done"
    /\ UNCHANGED <<sys, armorset_map, armor_map, armorset_bonus_map, treeVars, armorVars,
                   rewardVars, skillVars, weaponVars, validateVars>>

ArmorCheckNext == ValidateArmor

SpecArmorCheck == ArmorCheckInit /\ [][ArmorCheckNext]_vars

(***************************************************************************)
(* validate, and the rule evaluators not modelled above.                   *)
(***************************************************************************)
\* item_map.names(lang)
ItemNamesOf(lang) == IF lang = "en" THEN ItemNames ELSE {"Kaifukuyaku"}

Issue(text, name) == [text |-> text, name |-> name]

\* the errors of the names of s that are not in the set known
MissingNames(s, known, text) ==
    LET Unknown(x) == x \notin known
        bad == SelectSeq(s, Unknown)
    IN [i \in 1..Len(bad) |-> Issue(text, bad[i])]

RECURSIVE validate_items(_)
validate_items(item_combinations) ==
    IF item_combinations = <<>> THEN <<>>
    ELSE LET combo == Head(item_combinations)
             items == FilterNone(<<combo.result, combo.first, combo.second>>)
         IN MissingNames(items, ItemNames, "in combinations doesn't exist")
            \o validate_items(Tail(item_combinations))

\* the loop over the items of one location
RECURSIVE LocationItems(_)
LocationItems(items) ==
    IF items = <<>> THEN <<>>
    ELSE MissingNames(<<Head(items).item>>, ItemNamesOf(Head(items).item_lang),
                      "in location items doesn't exist")
         \o LocationItems(Tail(items))

RECURSIVE validate_locations(_)
validate_locations(locations) ==
    IF locations = <<>> THEN <<>>
    ELSE LocationItems(Head(locations).items) \o validate_locations(Tail(locations))

\* the first loop of validate_monsters: ensure_warn('hitzones' in entry, ...)
RECURSIVE HitzoneWarnings(_)
HitzoneWarnings(monsters) ==
    IF monsters = <<>> THEN <<>>
    ELSE AppendIf(<<>>, ~Has(Head(monsters), "hitzones"),
                  Issue("missing hitzones", Head(monsters).name))
         \o HitzoneWarnings(Tail(monsters))

\* the second loop of validate_monsters
RECURSIVE WeaknessChecks(_, _)
WeaknessChecks(monsters, st) ==
    IF monsters = <<>> THEN st
    ELSE LET entry == Head(monsters)
         IN WeaknessChecks(Tail(monsters),
                IF entry.size = "small" THEN st
                ELSE IF ~Has(entry, "weaknesses")
                     THEN [st EXCEPT !.warnings =
                              Append(@, Issue("does not contain a weakness entry",
                                              entry.name))]
                     ELSE IF "normal" \notin entry.weaknesses
                          THEN [st EXCEPT !.errors =
                                   Append(@, Issue("Invalid weaknesses, normal is a required state",
                                                   entry.name))]
                          ELSE st)

validate_monsters(monsters) ==
    WeaknessChecks(monsters, [errors |-> <<>>, warnings |-> HitzoneWarnings(monsters)])

validate_charms(charms) ==
    LET names == {charms[i].name : i \in 1..Len(charms)}
        Dangling(entry) == entry.previous_en # None /\ entry.previous_en \notin names
        bad == SelectSeq(charms, Dangling)
    IN [i \in 1..Len(bad) |-> Issue("for previous_en does not exist", bad[i].previous_en)]

\* the rule evaluators, in the order validate calls them
Rules == <<"validate_items", "validate_locations", "validate_monsters",
           "validate_monster_rewards", "validate_skills", "validate_armor",
           "validate_weapons", "validate_charms">>

\* the orders in which a set can be iterated
ListsOf(S) ==
    {q \in [1..Cardinality(S) -> S] : \A i, j \in 1..Cardinality(S) : q[i] = q[j] => i = j}

\* what the rule can return, as lists: validate_monster_rewards returns a
\* set, which extend() iterates in any order
RuleErrors(rule, data) ==
    CASE rule = "validate_items" -> {validate_items(data.item_combinations)}
      [] rule = "validate_locations" -> {validate_locations(data.location_map)}
      [] rule = "validate_monsters" -> {validate_monsters(data.monster_map).errors}
      [] rule = "validate_monster_rewards" ->
             ListsOf(validate_monster_rewards(data.monster_map).errors)
      [] rule = "validate_skills" -> {validate_skills(data.skill_map, <<>>)}
      [] rule = "validate_armor" ->
             {validate_armor(data.armorset_map, data.armor_map,
                             data.armorset_bonus_map).errors}
      [] rule = "validate_weapons" ->
             {validate_weapons(data.weapon_map, data.weapon_ammo_map).errors}
      [] rule = "validate_charms" -> {validate_charms(data.charm_map)}

\* the warnings the rule prints while it runs
RuleWarnings(rule, data) ==
    CASE rule = "validate_monsters" -> validate_monsters(data.monster_map).warnings
      [] rule = "validate_monster_rewards" ->
             validate_monster_rewards(data.monster_map).warnings
      [] rule = "validate_armor" ->
             validate_armor(data.armorset_map, data.armor_map,
                            data.armorset_bonus_map).warnings
      [] rule = "validate_weapons" ->
             validate_weapons(data.weapon_map, data.weapon_ammo_map).warnings
      [] OTHER -> <<>>

Lines(severity, issues) ==
    [i \in 1..Len(issues) |-> [severity |-> severity, issue |-> issues[i]]]

\* Extend with a fault: the errors of a rule are dropped once an earlier rule
\* has reported an error
ExtendIfClean(errs, new) == IF errs # <<>> THEN errs ELSE errs \o new

\* errors.extend(new)
Extend(errs, new) == errs \o new

\* the "if errors:" of validate: what is printed, and the value returned
Report(errs) ==
    IF errs # <<>>
    THEN [printed |-> Lines("ERROR", errs), result |-> "False"]
    ELSE [printed |-> <<>>, result |-> "True"]

CleanMonster ==
    [name |-> "Anjanath", size |-> "large", keys |-> {"hitzones", "weaknesses"},
     weaknesses |-> {"normal"}, has_rewards |-> TRUE,
     rewards |-> <<GoodReward("Carve", "LR", 50), GoodReward("Carve", "LR", 50)>>]

\* the monster maps: the weakness table is fine, absent or without "normal";
\* the rewards are fine, name an unknown item and rank, or sum to 50
MonsterMapChoices ==
    {<<[m EXCEPT !.rewards = r]>> :
        m \in {CleanMonster,
               [CleanMonster EXCEPT !.keys = {"hitzones"}],
               [CleanMonster EXCEPT !.weaknesses = {"alt"}]},
        r \in {CleanMonster.rewards,
               <<[GoodReward("Carve", "LR", 100) EXCEPT !.item_en = "Unlisted", !.rank = "MR"]>>,
               <<GoodReward("Carve", "LR", 50)>>}}

CleanSet == SetEntry(1, "Anjanath", ArmorName(1), None)

CleanArmor == <<ArmorEntry(1, 1, <<"Potion">>, <<"Attack Boost">>)>>

\* the armor data: fine, with a set without members, or with an armor listed twice
ArmorDataChoices ==
    {[sets |-> <<CleanSet>>, armor |-> CleanArmor],
     [sets |-> <<CleanSet, SetEntry(2, None, None, None)>>, armor |-> CleanArmor],
     [sets |-> <<[CleanSet EXCEPT !.chest = ArmorName(1)]>>, armor |-> CleanArmor]}

\* the weapon data: fine, with a suspicious attack value, or without ammo config
WeaponDataChoices ==
    {<<BaseEntry(1, "light-bowgun", "ammo_1")>>,
     <<[BaseEntry(1, "light-bowgun", "ammo_1") EXCEPT !.attack = @ + 1]>>,
     <<BaseEntry(1, "light-bowgun", "absent")>>}

\* the data sets: every rule evaluator with data that pass and data that do
\* not, and with data that give a warning only where it has warnings
DataInputs ==
    {[item_combinations |-> <<[result |-> "Potion", first |-> f, second |-> None]>>,
      location_map |-> <<[items |-> <<[item_lang |-> "en", item |-> l]>>]>>,
      monster_map |-> mm,
      skill_map |-> <<[name |-> "Attack Boost", levels |-> sl]>>,
      armorset_map |-> ad.sets, armor_map |-> ad.armor, armorset_bonus_map |-> <<>>,
      weapon_map |-> wd,
      weapon_ammo_map |-> Put(EmptyDict, "ammo_1", Put(EmptyDict, "normal1", GoodBullet)),
      charm_map |-> <<[name |-> "Attack Charm", previous_en |-> c]>>] :
        f \in {"Potion", "Unlisted"}, l \in {"Potion", "Kaifukuyaku"},
        mm \in MonsterMapChoices, sl \in {<<1, 2>>, <<1, 3>>},
        ad \in ArmorDataChoices, wd \in WeaponDataChoices,
        c \in {None, "Unlisted"}}

ValidateInit ==
    /\ sys = "validate"
    /\ pc = Rules[1]
    /\ mhdata \in DataInputs
    /\ validate_errors = <<>>
    /\ printed = <<>>
    /\ result = None
    /\ TreeIdle /\ ArmorIdle /\ RewardsIdle /\ SkillsIdle
    /\ WeaponsIdle /\ ArmorCheckIdle

\* one errors.extend(validate_...(mhdata)) of validate
RunRule ==
    /\ sys = "validate"
    /\ \E i \in 1..Len(Rules) :
          /\ pc = Rules[i]
          /\ \E new \in RuleErrors(Rules[i], mhdata) :
                validate_errors' = Extend(validate_errors, new)
          /\ printed' = printed \o Lines("Warning", RuleWarnings(Rules[i], mhdata))
          /\ pc' = IF i < Len(Rules) THEN Rules[i + 1] ELSE "report"
    /\ UNCHANGED <<sys, mhdata, result, treeVars, armorVars, rewardVars, skillVars,
                   weaponVars, armorCheckVars>>

\* the end of validate: print the errors and return
ReportErrors ==
    /\ sys = "validate" /\ pc = "report"
    /\ printed' = printed \o Report(validate_errors).printed
    /\ result' = Report(validate_errors).result
    /\ pc' = "done"
    /\ UNCHANGED <<sys, mhdata, validate_errors, treeVars, armorVars, rewardVars,
                   skillVars, weaponVars, armorCheckVars>>

ValidateNext == RunRule \/ ReportErrors

SpecValidate == ValidateInit /\ [][ValidateNext]_vars

(***************************************************************************)
(* The parent/child graph of the weapon map, for the properties below.     *)
(***************************************************************************)
Nodes == DOMAIN weapon_map.nodes

ChildSet(n) == SeqToSet(weapon_map.nodes[n].children)

\* how many times c occurs in the child list of p
Occurrences(p, c) ==
    Cardinality({i \in 1..Len(weapon_map.nodes[p].children) :
                    weapon_map.nodes[p].children[i] = c})

RECURSIVE PathsOfLen(_, _)
RECURSIVE SumOver(_, _, _, _)
SumOver(keys, i, n, k) ==
    IF i = 0 THEN 0
    ELSE SumOver(keys, i - 1, n, k)
         + (IF Occurrences(keys[i], n) = 0 THEN 0
            ELSE Occurrences(keys[i], n) * PathsOfLen(keys[i], k - 1))

\* the child-reference paths of exactly k edges from a root to n
PathsOfLen(n, k) ==
    IF k = 0 THEN (IF n \in SeqToSet(tree.roots) THEN 1 ELSE 0)
    ELSE SumOver(weapon_map.keys, Len(weapon_map.keys), n, k)

RECURSIVE PathsUpTo(_, _)
PathsUpTo(n, k) == IF k < 0 THEN 0 ELSE PathsOfLen(n, k) + PathsUpTo(n, k - 1)

\* the child-reference paths from a root to n, of at most one edge per node
PathsTo(n) == PathsUpTo(n, Cardinality(Nodes))

RECURSIVE Closure(_, _)
Closure(S, k) ==
    IF k = 0 THEN S ELSE Closure(S \cup UNION {ChildSet(n) : n \in S}, k - 1)

\* the nodes reached from n by one or more child references
Descendants(n) == Closure(ChildSet(n), Cardinality(Nodes))

ReachableFrom(r) == {r} \cup Descendants(r)

TreeConnected == UNION {ReachableFrom(r) : r \in SeqToSet(tree.roots)}

NoDuplicates(s) == \A i, j \in 1..Len(s) : s[i] = s[j] => i = j

\* C1: in a returned tree every node reachable from a root has exactly one
\* child-reference path from a root to it, and no node is its own ancestor
C1_SinglePathAcyclic ==
    tree.returned =>
        /\ \A n \in TreeConnected : PathsTo(n) = 1
        /\ \A n \in Nodes : n \notin Descendants(n)

IsRoot(n) == weapon_map.nodes[n].parent = NoParent /\ weapon_map.nodes[n].tree # None

IsIsolated(n) == weapon_map.nodes[n].parent = NoParent /\ weapon_map.nodes[n].tree = None

\* C2: in a returned tree the roots are the parentless labelled nodes, the
\* isolated nodes the parentless unlabelled ones, and every other node is
\* reachable from exactly one root
C2_OneRootPerNode ==
    tree.returned =>
        /\ SeqToSet(tree.roots) = {n \in Nodes : IsRoot(n)}
        /\ SeqToSet(tree.isolated) = {n \in Nodes : IsIsolated(n)}
        /\ \A n \in Nodes :
              ~IsIsolated(n) =>
                  Cardinality({r \in SeqToSet(tree.roots) : n \in ReachableFrom(r)}) = 1

\* depth-first pre-order of the subtrees of the nodes of s, in order
RECURSIVE PreOrder(_)
PreOrder(s) ==
    IF s = <<>> THEN <<>>
    ELSE <<Head(s)>> \o PreOrder(weapon_map.nodes[Head(s)].children)
                    \o PreOrder(Tail(s))

\* the keys of s that are in S, in the order of s
RECURSIVE Filter(_, _)
Filter(s, S) ==
    IF s = <<>> THEN <<>>
    ELSE (IF Head(s) \in S THEN <<Head(s)>> ELSE <<>>) \o Filter(Tail(s), S)

\* C3: crafted() yields no node twice and, once exhausted, has yielded the
\* tree-connected nodes in depth-first pre-order from the roots (children in
\* child order); isolated() is the isolated nodes in encounter order
C3_CraftedPreOrderOnce ==
    /\ NoDuplicates(yielded)
    /\ pc = "exhausted" =>
          /\ SeqToSet(yielded) = TreeConnected
          /\ yielded = PreOrder(tree.roots)
          /\ tree.isolated = Filter(weapon_map.keys, {n \in Nodes : IsIsolated(n)})

\* the node a nonzero slot names: the weapon of the table entry at that position
SlotTarget(descendant_idx) == upgrade_data[descendant_idx + 1].equip_id

\* C4: a second-pass step for a weapon whose slot 0 is nonzero copies the
\* weapon's label onto its first-declared child and changes no other label;
\* a step for a weapon whose slot 0 is zero changes no label
C4_StepLabels ==
    (pc = "connect" /\ cur <= Len(weapon_map.keys) /\ pc' = "connect") =>
        LET weapon == weapon_map.keys[cur]
            d == DescendantsOf(weapon_descendants, weapon)
        IN IF d # <<>> /\ d[1] # 0
           THEN /\ weapon_map'.nodes[SlotTarget(d[1])].tree = weapon_map.nodes[weapon].tree
                /\ \A n \in Nodes \ {SlotTarget(d[1])} :
                      weapon_map'.nodes[n].tree = weapon_map.nodes[n].tree
           ELSE \A n \in Nodes : weapon_map'.nodes[n].tree = weapon_map.nodes[n].tree

C4_FirstChildOnly == [][C4_StepLabels]_vars

\* the label the record of weapon n declares
RecordLabel(n) ==
    LET b == CHOOSE b \in SeqToSet(weapon_binaries) : b.id = n
    IN IF b.tree_id # 0 THEN TreeName(b.tree_id) ELSE None

\* a weapon with two distinct children was just processed: its first child
\* took its label, its second child kept another one
C4_Witness ==
    /\ pc = "connect" /\ cur > 1
    /\ LET weapon == weapon_map.keys[cur - 1]
           d == DescendantsOf(weapon_descendants, weapon)
       IN /\ d # <<>> /\ d[1] # 0 /\ d[2] # 0
          /\ SlotTarget(d[1]) \notin {weapon, SlotTarget(d[2])}
          /\ SlotTarget(d[2]) # weapon
          /\ RecordLabel(SlotTarget(d[1])) # weapon_map.nodes[weapon].tree
          /\ weapon_map.nodes[SlotTarget(d[1])].tree = weapon_map.nodes[weapon].tree
          /\ weapon_map.nodes[SlotTarget(d[2])].tree # weapon_map.nodes[weapon].tree

\* a nonzero slot of a created weapon that names no position of the upgrade
\* table, or a position whose weapon has no node
UnresolvedAt(i) ==
    LET d == DescendantsOf(weapon_descendants, weapon_map.keys[i])
    IN \E k \in 1..Len(d) :
          /\ d[k] # 0
          /\ \/ d[k] >= Len(upgrade_data)
             \/ upgrade_data[d[k] + 1].equip_id \notin SeqToSet(weapon_map.keys)

Unresolved == \E i \in 1..Len(weapon_map.keys) : UnresolvedAt(i)

\* C5: with an unresolved slot load_tree never gets past the weapon that has
\* it and returns no tree; it ends in the error, and only then
C5_UnresolvedAborts ==
    /\ tree.returned => ~Unresolved
    /\ pc = "error" => Unresolved /\ ~tree.returned
    /\ (pc = "connect" /\ Unresolved) =>
          \A i \in 1..Len(weapon_map.keys) : UnresolvedAt(i) => cur <= i

\* the abort on a slot whose table entry names a weapon that was skipped for
\* its name
C5_Witness ==
    /\ pc = "error"
    /\ LET d == DescendantsOf(weapon_descendants, weapon_map.keys[cur - 1])
       IN \E k \in 1..Len(d) :
             /\ d[k] # 0 /\ d[k] < Len(upgrade_data)
             /\ \E b \in SeqToSet(weapon_binaries) :
                   b.id = SlotTarget(d[k]) /\ NameInvalid(b.name)

\* the abort on a slot that is no position of the upgrade table
C5_WitnessRange ==
    /\ pc = "error"
    /\ LET d == DescendantsOf(weapon_descendants, weapon_map.keys[cur - 1])
       IN \E k \in 1..Len(d) : d[k] >= Len(upgrade_data)

(***************************************************************************)
(* Properties of load_armor_series.                                        *)
(***************************************************************************)
ReturnedSets == Values(armor_series)

\* the records that pass the inclusion filter
KeptArmor == {b \in SeqToSet(armor_binaries) : ArmorKept(b)}

\* the pieces in the member lists, and in the part mappings, of the returned sets
ListMembers == UNION {SeqToSet(ReturnedSets[i].armors) : i \in 1..Len(ReturnedSets)}

PartMembers ==
    UNION {{ReturnedSets[i].armor_by_part[p] : p \in DOMAIN ReturnedSets[i].armor_by_part} :
              i \in 1..Len(ReturnedSets)}

\* C6: the member pieces of the returned sets, through the member lists and
\* through the part mappings, are exactly the kept records, none twice
C6_MembersAreKept ==
    pc = "returned" =>
        /\ ListMembers = KeptArmor
        /\ PartMembers = KeptArmor
        /\ \A i \in 1..Len(ReturnedSets) : NoDuplicates(ReturnedSets[i].armors)
        /\ \A i, j \in 1..Len(ReturnedSets) :
              i # j => SeqToSet(ReturnedSets[i].armors) \cap SeqToSet(ReturnedSets[j].armors) = {}

RankKey(aset) == IF aset.armors[1].variant = 0 THEN 0 ELSE 1

\* C7: a returned set's order is the least order of its members, and the
\* returned sets, in result order, are sorted by (rank, order)
C7_OrderedByRankOrder ==
    pc = "returned" =>
        /\ \A i \in 1..Len(ReturnedSets) :
              /\ \E k \in 1..Len(ReturnedSets[i].armors) :
                    ReturnedSets[i].armors[k].order = ReturnedSets[i].order
              /\ \A k \in 1..Len(ReturnedSets[i].armors) :
                    ReturnedSets[i].order <= ReturnedSets[i].armors[k].order
        /\ \A i, j \in 1..Len(ReturnedSets) :
              i < j =>
                  \/ RankKey(ReturnedSets[i]) < RankKey(ReturnedSets[j])
                  \/ /\ RankKey(ReturnedSets[i]) = RankKey(ReturnedSets[j])
                     /\ ReturnedSets[i].order <= ReturnedSets[j].order

(***************************************************************************)
(* Properties of validate_monster_rewards.                                 *)
(***************************************************************************)
Monster == monster_map[1]

\* every reward names a listed condition, a listed item and a supported rank
RewardsValid ==
    /\ Monster.has_rewards
    /\ \A i \in 1..Len(Monster.rewards) :
          /\ Monster.rewards[i].condition_en \in ConditionNames
          /\ Monster.rewards[i].item_en \in ItemNames
          /\ Monster.rewards[i].rank \in supported_ranks

\* the (rank, condition) groups of the monster
RewardGroups ==
    {<<Monster.rewards[i].rank, Monster.rewards[i].condition_en>> :
        i \in 1..Len(Monster.rewards)}

RECURSIVE SumOfGroup(_, _)
SumOfGroup(key, i) ==
    IF i = 0 THEN 0
    ELSE SumOfGroup(key, i - 1)
         + (IF <<Monster.rewards[i].rank, Monster.rewards[i].condition_en>> = key
            THEN Monster.rewards[i].percentage ELSE 0)

GroupSum(key) == SumOfGroup(key, Len(Monster.rewards))

\* the warnings, and the returned errors, that name the monster and the group
WarningsNaming(key) ==
    Cardinality({i \in 1..Len(reward_warnings) :
                    /\ reward_warnings[i].monster = Monster.name
                    /\ reward_warnings[i].rank = key[1]
                    /\ reward_warnings[i].condition = key[2]})

ErrorsNaming(key) ==
    {e \in reward_errors :
        /\ e.monster = Monster.name
        /\ "rank" \in DOMAIN e /\ e.rank = key[1]
        /\ "condition" \in DOMAIN e /\ e.condition = key[2]}

Designated == "Quest Reward (Bronze)"

\* C8: for a monster with valid rewards, a group with a capped
\* condition whose percentages do not sum to 100 gives exactly one returned
\* error naming monster, rank and condition, a group that sums to 100 none
C8_OneErrorPerGroup ==
    (pc = "done" /\ RewardsValid) =>
        \A key \in RewardGroups :
            /\ (key[2] # Designated /\ GroupSum(key) # 100)
                  => Cardinality(ErrorsNaming(key)) = 1
            /\ GroupSum(key) = 100
                  => ErrorsNaming(key) = {} /\ WarningsNaming(key) = 0

\* C9: a group of the designated condition is accepted iff its sum is at
\* least 100, a group of any other condition iff its sum is exactly 100
C9_OnlyDesignatedUncapped ==
    (pc = "done" /\ RewardsValid) =>
        \A key \in RewardGroups :
            (WarningsNaming(key) = 0 /\ ErrorsNaming(key) = {})
                <=> (IF key[2] = Designated THEN GroupSum(key) >= 100
                     ELSE GroupSum(key) = 100)

(***************************************************************************)
(* Properties of validate_skills.                                          *)
(***************************************************************************)
Skill == skill_map[1]

SkillIssues == {i \in 1..Len(skill_errors) : skill_errors[i].skill = Skill.name}

\* C10: a skill gets no issue iff its N declared levels are exactly 1..N
C10_NoIssueIffContiguous ==
    pc = "done" =>
        (SkillIssues = {} <=> SeqToSet(Skill.levels) = 1..Len(Skill.levels))

\* the declared levels are distinct, all at least 1, and not 1..N
HasGap(levels) ==
    /\ NoDuplicates(levels)
    /\ \A i \in 1..Len(levels) : levels[i] >= 1
    /\ SeqToSet(levels) # 1..Len(levels)

IsMissingError(e) == e.text = "is missing effect levels"

\* C11 as stated: levels [1,2,3] give no issue, levels [1,3] exactly one
\* issue, a missing-effect-levels error, and so does every skill with a gap
C11_OneIssuePerGap ==
    pc = "done" =>
        /\ Skill.levels = <<1, 2, 3>> => skill_errors = <<>>
        /\ (Skill.levels = <<1, 3>> \/ HasGap(Skill.levels)) =>
              Len(skill_errors) = 1 /\ IsMissingError(skill_errors[1])

\* the out-of-range errors of the declared levels, in declaration order
ExpectedRangeErrors(skill) ==
    LET OutOfRange(v) == v < 0 \/ v > Len(skill.levels)
        bad == SelectSeq(skill.levels, OutOfRange)
    IN [i \in 1..Len(bad) |->
          [text |-> "has out of range effect", skill |-> skill.name, value |-> bad[i]]]

\* the missing-effect-levels error is due: fewer than N distinct values in 0..N
MissingDue(skill) ==
    Cardinality({v \in SeqToSet(skill.levels) : v >= 0 /\ v <= Len(skill.levels)})
        # Len(skill.levels)

\* C11 as amended: the issues of a skill are one out-of-range error for each
\* declared value below 0 or above N, then one missing-effect-levels error iff
\* fewer than N distinct values lie in 0..N; so [1,2,3] gives none, [1,3] gives
\* two, and a gap among distinct levels from 1 up gives at least two
C11_IssuesOfSkill ==
    pc = "done" =>
        /\ SubSeq(skill_errors, 1, Len(ExpectedRangeErrors(Skill))) = ExpectedRangeErrors(Skill)
        /\ Len(skill_errors) =
              Len(ExpectedRangeErrors(Skill)) + (IF MissingDue(Skill) THEN 1 ELSE 0)
        /\ MissingDue(Skill) => IsMissingError(skill_errors[Len(skill_errors)])
        /\ Skill.levels = <<1, 2, 3>> => skill_errors = <<>>
        /\ Skill.levels = <<1, 3>> =>
              /\ Len(skill_errors) = 2
              /\ skill_errors[1].value = 3 /\ ~IsMissingError(skill_errors[1])
              /\ IsMissingError(skill_errors[2])
        /\ HasGap(Skill.levels) =>
              /\ Len(skill_errors) >= 2
              /\ Cardinality({i \in 1..Len(skill_errors) : IsMissingError(skill_errors[i])}) = 1

\* levels [1,3] were validated and gave the two issues
C11_Witness ==
    /\ pc = "done" /\ sys = "validate_skills"
    /\ Skill.levels = <<1, 3>>
    /\ Len(skill_errors) = 2

(***************************************************************************)
(* Properties of validate_weapons.                                         *)
(***************************************************************************)
GunEntries ==
    {i \in 1..Len(mhdata_weapon_map) :
        mhdata_weapon_map[i].weapon_type \in weapon_types_gun}

\* the entry declares an ammo config: the key is there, not None, not empty
HasAmmoConfig(entry) == Has(entry, "ammo_config") /\ entry.ammo_config \notin {None, ""}

\* how many errors with this text name the weapon at position i
WeaponErrorCount(i, text) ==
    Cardinality({k \in 1..Len(weapon_errors) :
                    /\ weapon_errors[k].name = mhdata_weapon_map[i].name
                    /\ weapon_errors[k].text = text})

\* C12: a bowgun without an ammo config gets exactly one "missing ammo
\* config" error and no lookup error; a bowgun with an ammo config gets no
\* "missing" error, and one lookup error iff the config is not in the table
C12_AmmoErrors ==
    pc = "done" =>
        \A i \in GunEntries :
            LET entry == mhdata_weapon_map[i]
                missing == WeaponErrorCount(i, "is missing ammo config")
                invalid == WeaponErrorCount(i, "has invalid ammo config")
            IN /\ ~HasAmmoConfig(entry) => missing = 1 /\ invalid = 0
               /\ HasAmmoConfig(entry) =>
                     /\ missing = 0
                     /\ invalid = IF entry.ammo_config \in SeqToSet(weapon_ammo_map.keys)
                                  THEN 0 ELSE 1

\* a bowgun without the ammo_config key and a bowgun with an unlisted config
\* were validated against a table that lists a config
C12_Witness ==
    /\ pc = "done" /\ sys = "validate_weapons"
    /\ weapon_ammo_map.keys # <<>>
    /\ \E i, j \in GunEntries :
          /\ ~Has(mhdata_weapon_map[i], "ammo_config")
          /\ WeaponErrorCount(i, "is missing ammo config") = 1
          /\ HasAmmoConfig(mhdata_weapon_map[j])
          /\ WeaponErrorCount(j, "has invalid ammo config") = 1

(***************************************************************************)
(* Properties of validate_armor.                                           *)
(***************************************************************************)
\* the places (set, part) that list the armor of this name
Listings(armor_name) ==
    {<<s, p>> \in (1..Len(armorset_map)) \X (1..Len(armor_parts)) :
        armorset_map[s][armor_parts[p]] = armor_name}

\* the sets that list the armor of this name
ListingSets(armor_name) == {l[1] : l \in Listings(armor_name)}

\* how many errors have this text and name and, if detail is not "", this detail
ArmorErrorCount(text, name, detail) ==
    Cardinality({k \in 1..Len(armor_errors) :
                    /\ armor_errors[k].text = text
                    /\ armor_errors[k].name = name
                    /\ detail # "" => armor_errors[k].detail = detail})

\* the duplicate errors about the armor of this name, over all sets
DuplicateErrors(armor_name) ==
    Cardinality({k \in 1..Len(armor_errors) :
                    /\ armor_errors[k].text = "has duplicated armor"
                    /\ armor_errors[k].detail = armor_name})

EmptySets ==
    {s \in 1..Len(armorset_map) :
        \A p \in 1..Len(armor_parts) : armorset_map[s][armor_parts[p]] = None}

\* the errors about an armor being in two sets or in none
UniquenessErrors ==
    {k \in 1..Len(armor_errors) :
        armor_errors[k].text \in {"has duplicated armor", "is not in an armor set"}}

\* C14: an armor of the map listed in more than one set gets a duplicate
\* error, an armor listed in no set gets an "is not in an armor set" error,
\* there is no uniqueness error when every armor is listed in exactly one
\* set, and a set without members gets a warning and no error
C14_ArmorUniqueness ==
    pc = "done" =>
        /\ \A i \in 1..Len(armor_map) :
              LET name == armor_map[i].name
              IN /\ Cardinality(ListingSets(name)) > 1 => DuplicateErrors(name) >= 1
                 /\ ListingSets(name) = {} =>
                       ArmorErrorCount("is not in an armor set", name, "") >= 1
        /\ (\A i \in 1..Len(armor_map) :
                Cardinality(ListingSets(armor_map[i].name)) = 1) => UniquenessErrors = {}
        /\ \A s \in EmptySets :
              LET setname == armorset_map[s].name
              IN /\ \E k \in 1..Len(armor_warnings) : armor_warnings[k].name = setname
                 /\ \A k \in 1..Len(armor_errors) :
                       armor_errors[k].name = setname =>
                           /\ armor_errors[k].text = "has invalid monster"
                           /\ armorset_map[s].monster \notin MonsterNames

(***************************************************************************)
(* Properties of validate.                                                 *)
(***************************************************************************)
\* the rule reports an error on the data
RuleFailed(rule) == \E q \in RuleErrors(rule, mhdata) : q # <<>>

\* what rules 1..i can add to the errors, each with all it reports
RECURSIVE ExpectedErrors(_)
ExpectedErrors(i) ==
    IF i = 0 THEN {<<>>}
    ELSE {a \o b : a \in ExpectedErrors(i - 1), b \in RuleErrors(Rules[i], mhdata)}

\* the warnings rules 1..i print
RECURSIVE ExpectedWarnings(_)
ExpectedWarnings(i) ==
    IF i = 0 THEN <<>>
    ELSE ExpectedWarnings(i - 1) \o RuleWarnings(Rules[i], mhdata)

PrintedOf(severity) ==
    LET Is(line) == line.severity = severity
    IN SelectSeq(printed, Is)

\* C13: when validate returns, every rule has added all its errors whatever
\* the rules before it reported, every warning and every error is printed,
\* and the value returned is False iff some rule reported an error; warnings
\* do not make it False
C13_FailsIffError ==
    pc = "done" =>
        /\ validate_errors \in ExpectedErrors(Len(Rules))
        /\ PrintedOf("Warning") = Lines("Warning", ExpectedWarnings(Len(Rules)))
        /\ PrintedOf("ERROR") = Lines("ERROR", validate_errors)
        /\ result \in {"True", "False"}
        /\ result = "False" <=> \E i \in 1..Len(Rules) : RuleFailed(Rules[i])

\* a run where the first and the last rule reported an error, both errors
\* were collected, and a warning was printed in between
C13_Witness ==
    /\ pc = "done" /\ sys = "validate"
    /\ RuleFailed(Rules[1]) /\ RuleFailed(Rules[Len(Rules)])
    /\ validate_errors[1].text = "in combinations doesn't exist"
    /\ validate_errors[Len(validate_errors)].text = "for previous_en does not exist"
    /\ PrintedOf("Warning") # <<>>
    /\ result = "False"

\* a run with the three kinds of warning and no error, which returned True
C13_WitnessWarningsOnly ==
    /\ pc = "done" /\ sys = "validate"
    /\ \A text \in {"does not contain a weakness entry", "has no armor entries",
                     "has a suspicious true attack value"} :
          \E k \in 1..Len(printed) :
              printed[k].severity = "Warning" /\ printed[k].issue.text = text
    /\ validate_errors = <<>>
    /\ result = "True"

(***************************************************************************)
(* Properties of load_tree over the orders of the records.                 *)
(***************************************************************************)
\* the weapons whose descendant slot 0 is nonzero
MidTree == {w \in Nodes : AnySlot(DescendantsOf(weapon_descendants, w))
                          /\ DescendantsOf(weapon_descendants, w)[1] # 0}

\* C15: after load_tree has returned, the first child of every weapon whose
\* descendant slot 0 is nonzero carries the label of that weapon, whatever the
\* order of the records
C15_FirstChildCarriesLabel ==
    tree.returned =>
        \A w \in MidTree :
            weapon_map.nodes[weapon_map.nodes[w].children[1]].tree = weapon_map.nodes[w].tree

====
